---- MODULE Spec2Model ----
(***************************************************************************)
(* Model of signal_copier.py: the regular-expression signal extractor      *)
(* parse_trade_signal and the Telegram dispatch pipeline of main/handler.  *)
(* Text is a sequence of one-character strings.                            *)
(***************************************************************************)
EXTENDS Integers, Sequences, FiniteSets, TLC

VARIABLES
    message_text, trade, ppc,   \* one call of parse_trade_signal: argument, result, position
    environ,                    \* os.environ: the secrets that are set
    pc,                         \* position of main()
    config,                     \* main's locals read from the secrets
    client,                     \* the TelegramClient: created, handler registered, connected
    events,                     \* the updates received, each with its handler's locals and outcome
    outbox                      \* the client.send_message requests issued, in order

pvars == <<message_text, trade, ppc>>
mvars == <<environ, pc, config, client, events, outbox>>
vars == <<message_text, trade, ppc, environ, pc, config, client, events, outbox>>

\* ---------------------------------------------------------------- bounds
MaxFrags == 3
MaxEvents == 2

\* ------------------------------------------------------ character classes
LowerSeq == <<"a","b","c","d","e","f","g","h","i","j","k","l","m","n","o","p","q","r","s","t","u","v","w","x","y","z">>
UpperSeq == <<"A","B","C","D","E","F","G","H","I","J","K","L","M","N","O","P","Q","R","S","T","U","V","W","X","Y","Z">>
LowerLetters == {LowerSeq[i] : i \in 1..Len(LowerSeq)}
UpperLetters == {UpperSeq[i] : i \in 1..Len(UpperSeq)}
\* [A-Z] under re.IGNORECASE
Letters == LowerLetters \cup UpperLetters
\* \d
Digits == {"0","1","2","3","4","5","6","7","8","9"}
\* [\d.]
NumChars == Digits \cup {"."}
\* \s
Whitespace == {" ", "\n", "\t"}
\* [:\s]
ColonSpace == Whitespace \cup {":"}

UpperTable == [c \in LowerLetters |-> UpperSeq[CHOOSE i \in 1..Len(LowerSeq) : LowerSeq[i] = c]]

\* str.upper() on one character / on a string
upper(c) == IF c \in LowerLetters THEN UpperTable[c] ELSE c
str_upper(s) == [i \in 1..Len(s) |-> upper(s[i])]

RECURSIVE str_remove(_, _)
\* str.replace(c, '')
str_remove(s, c) ==
    IF s = <<>> THEN <<>>
    ELSE IF Head(s) = c THEN str_remove(Tail(s), c)
    ELSE <<Head(s)>> \o str_remove(Tail(s), c)

\* ------------------------------------------------- the literals of patterns
BUY == <<"B","U","Y">>
SELL == <<"S","E","L","L">>
XAUUSD == <<"X","A","U","U","S","D">>
XAU_USD == <<"X","A","U","/","U","S","D">>
GBPUSD == <<"G","B","P","U","S","D">>
EURUSD == <<"E","U","R","U","S","D">>
\* a label alternative is head\s*tail (tail empty when the label is one word)
EntryLabels == << [head |-> <<"E","N","T","R","Y">>, tail |-> <<>>],
                  [head |-> <<"E","N","T","E","R">>, tail |-> <<>>],
                  [head |-> <<"E","N">>, tail |-> <<>>] >>
TpLabels == << [head |-> <<"T","P">>, tail |-> <<>>],
               [head |-> <<"T","A","K","E">>, tail |-> <<"P","R","O","F","I","T">>] >>
SlLabels == << [head |-> <<"S","L">>, tail |-> <<>>],
               [head |-> <<"S","T","O","P">>, tail |-> <<"L","O","S","S">>] >>
\* {3,6}
MinSym == 3
MaxSym == 6

\* -------------------------------------------------------- regex primitives
NoMatch == [found |-> FALSE]

\* a literal (given in upper case) matches at p, ignoring case
LitAt(s, p, lit) ==
    /\ p + Len(lit) - 1 <= Len(s)
    /\ \A k \in 1..Len(lit) : upper(s[p + k - 1]) = lit[k]

RECURSIVE RunEnd(_, _, _)
\* greedy cls*: the position after the longest run of cls characters from p
RunEnd(s, p, cls) ==
    IF p <= Len(s) /\ s[p] \in cls THEN RunEnd(s, p + 1, cls) ELSE p

Range(f) == {f[i] : i \in DOMAIN f}
Max(S) == CHOOSE x \in S : \A y \in S : y <= x
Min(S) == CHOOSE x \in S : \A y \in S : x <= y

\* [A-Z]{3,6}\/[A-Z]{3,6} at p: end position (exclusive), 0 when it fails.
\* The first repetition backtracks from 6 down to 3 until a '/' follows;
\* the second is greedy and nothing follows it.
PairEnd(s, p) ==
    LET run1 == RunEnd(s, p, Letters) - p
        ns == {n \in MinSym..MaxSym : /\ n <= run1
                                      /\ p + n <= Len(s)
                                      /\ s[p + n] = "/"
                                      /\ RunEnd(s, p + n + 1, Letters) - (p + n + 1) >= MinSym}
    IN IF ns = {} THEN 0
       ELSE LET n == Max(ns)
                run2 == RunEnd(s, p + n + 1, Letters) - (p + n + 1)
            IN p + n + 1 + (IF run2 > MaxSym THEN MaxSym ELSE run2)

\* ([A-Z]{3,6}\/[A-Z]{3,6}|XAUUSD|XAU\/USD|GBPUSD|EURUSD) at p, alternatives in order
SymbolEnd(s, p) ==
    IF PairEnd(s, p) # 0 THEN PairEnd(s, p)
    ELSE IF LitAt(s, p, XAUUSD) THEN p + Len(XAUUSD)
    ELSE IF LitAt(s, p, XAU_USD) THEN p + Len(XAU_USD)
    ELSE IF LitAt(s, p, GBPUSD) THEN p + Len(GBPUSD)
    ELSE IF LitAt(s, p, EURUSD) THEN p + Len(EURUSD)
    ELSE 0

\* (BUY|SELL)\s*(symbol) anchored at p; \s* is greedy and gives back
ActionAt(s, p) ==
    LET kw == IF LitAt(s, p, BUY) THEN BUY ELSE IF LitAt(s, p, SELL) THEN SELL ELSE <<>>
        a == p + Len(kw)
        starts == {b \in a..RunEnd(s, a, Whitespace) : SymbolEnd(s, b) # 0}
    IN IF kw = <<>> \/ starts = {} THEN NoMatch
       ELSE LET b == Max(starts)
            IN [found |-> TRUE,
                group1 |-> SubSeq(s, p, a - 1),
                group2 |-> SubSeq(s, b, SymbolEnd(s, b) - 1)]

\* head\s*tail at p: end position (exclusive), 0 when it fails
LabelEnd(s, p, lab) ==
    IF ~LitAt(s, p, lab.head) THEN 0
    ELSE LET a == p + Len(lab.head)
         IN IF lab.tail = <<>> THEN a
            ELSE LET starts == {b \in a..RunEnd(s, a, Whitespace) : LitAt(s, b, lab.tail)}
                 IN IF starts = {} THEN 0 ELSE Max(starts) + Len(lab.tail)

\* \s*[:\s]*([\d.]+) from e: the captured group, <<>> when it fails.  Both
\* stars are greedy; giving characters back never helps because the number
\* cannot start with a colon or white space.
NumberFrom(s, e) ==
    LET a == RunEnd(s, e, Whitespace)
        b == RunEnd(s, a, ColonSpace)
    IN SubSeq(s, b, RunEnd(s, b, NumChars) - 1)

\* (label1|label2|...)\s*[:\s]*([\d.]+) anchored at p, alternatives in order
FieldAt(s, p, labels) ==
    LET ok == {i \in 1..Len(labels) : /\ LabelEnd(s, p, labels[i]) # 0
                                      /\ NumberFrom(s, LabelEnd(s, p, labels[i])) # <<>>}
    IN IF ok = {} THEN NoMatch
       ELSE LET e == LabelEnd(s, p, labels[Min(ok)])
            IN [found |-> TRUE, group1 |-> SubSeq(s, p, e - 1), group2 |-> NumberFrom(s, e)]

\* re.search(patterns['action'], s, re.IGNORECASE): the leftmost match
SearchAction(s) ==
    LET hits == {p \in 1..Len(s) : ActionAt(s, p).found}
    IN IF hits = {} THEN NoMatch ELSE ActionAt(s, Min(hits))

\* re.search(patterns[field], s, re.IGNORECASE): the leftmost match
SearchField(s, labels) ==
    LET hits == {p \in 1..Len(s) : FieldAt(s, p, labels).found}
    IN IF hits = {} THEN NoMatch ELSE FieldAt(s, Min(hits), labels)

\* ------------------------------------------------------ parse_trade_signal
\* Python's None
None == [none |-> TRUE]

\* trade[key] = match.group(2) when the field's pattern matched
Found(key, match) == IF match.found THEN key :> match.group2 ELSE <<>>

\* parse_trade_signal without its early return and its final test: the fields
\* found are returned even when no action and symbol were
parse_partial(text) ==
    LET action_match == SearchAction(text)
    IN (IF action_match.found
        THEN [action |-> str_upper(action_match.group1),
              symbol |-> str_remove(str_upper(action_match.group2), "/")]
        ELSE <<>>)
       @@ Found("entry", SearchField(text, EntryLabels))
       @@ Found("tp", SearchField(text, TpLabels))
       @@ Found("sl", SearchField(text, SlLabels))

\* parse_trade_signal without .replace('/', '')
parse_keep_slash(text) ==
    LET action_match == SearchAction(text)
    IN IF ~action_match.found THEN None
       ELSE [action |-> str_upper(action_match.group1),
             symbol |-> str_upper(action_match.group2)]
            @@ Found("entry", SearchField(text, EntryLabels))
            @@ Found("tp", SearchField(text, TpLabels))
            @@ Found("sl", SearchField(text, SlLabels))

parse_trade_signal(text) ==
    LET action_match == SearchAction(text)
        entry_match == SearchField(text, EntryLabels)
        tp_match == SearchField(text, TpLabels)
        sl_match == SearchField(text, SlLabels)
    IN IF ~action_match.found THEN None
       ELSE [action |-> str_upper(action_match.group1),
             symbol |-> str_remove(str_upper(action_match.group2), "/")]
            @@ Found("entry", entry_match) @@ Found("tp", tp_match) @@ Found("sl", sl_match)

\* ------------------------------------------------------------ input texts
Fragments == {
    <<"B","U","Y"," ","E","U","R","U","S","D">>,
    <<"s","e","l","l"," ","E","u","r","/","u","s","d">>,
    <<"S","E","L","L"," ","G","B","P","U","S","D"," ">>,
    <<"/","J","P","Y">>,
    <<"x">>,
    <<" ","T","P",":"," ","1","9","5","0",".","5">>,
    <<" ","S","L","."," ","1",".","3","0">>,
    <<" ","E","n","t","e","r",":"," ","1","0","0">>,
    <<"g","o","o","d"," ","m","o","r","n","i","n","g">>,
    <<" ","T","a","k","e"," "," ","P","r","o","f","i","t"," ","2",".","5">>,
    <<"\n","S","t","o","p"," ","L","o","s","s",":",":"," ","7",".">> }

RECURSIVE TextsOf(_)
\* the texts made of at most n fragments
TextsOf(n) ==
    IF n = 0 THEN {<<>>}
    ELSE LET shorter == TextsOf(n - 1)
         IN shorter \cup {t \o f : t \in shorter, f \in Fragments}

Texts == TextsOf(MaxFrags)

\* ------------------------------------------------------- secrets loading
RECURSIVE split(_, _)
\* str.split(sep) for a one-character separator
split(s, sep) ==
    LET cut == {i \in 1..Len(s) : s[i] = sep}
    IN IF cut = {} THEN <<s>>
       ELSE <<SubSeq(s, 1, Min(cut) - 1)>> \o split(SubSeq(s, Min(cut) + 1, Len(s)), sep)

\* str.strip()
strip(s) ==
    LET keep == {i \in 1..Len(s) : s[i] \notin Whitespace}
    IN IF keep = {} THEN <<>> ELSE SubSeq(s, Min(keep), Max(keep))

DigitValue == [d \in Digits |-> CHOOSE n \in 0..9 : <<"0","1","2","3","4","5","6","7","8","9">>[n + 1] = d]

RECURSIVE DecimalValue(_)
DecimalValue(ds) ==
    IF ds = <<>> THEN 0
    ELSE 10 * DecimalValue(SubSeq(ds, 1, Len(ds) - 1)) + DigitValue[ds[Len(ds)]]

ValueError == [ok |-> FALSE]

\* int(s): surrounding white space and one sign are accepted, then digits only
int(s) ==
    LET t == strip(s)
        signed == t # <<>> /\ t[1] \in {"+", "-"}
        ds == IF signed THEN Tail(t) ELSE t
    IN IF ds = <<>> \/ \E i \in 1..Len(ds) : ds[i] \notin Digits THEN ValueError
       ELSE [ok |-> TRUE, value |-> IF signed /\ t[1] = "-" THEN 0 - DecimalValue(ds) ELSE DecimalValue(ds)]

\* the try block reading the destination with a default instead of failing
LoadSecrets_default_destination(env) ==
    IF {"API_ID", "API_HASH", "SOURCE_CHANNEL_IDS"} \subseteq DOMAIN env
    THEN LET id == int(env["API_ID"])
             parts == split(env["SOURCE_CHANNEL_IDS"], ",")
             ids == [i \in 1..Len(parts) |-> int(strip(parts[i]))]
             dest == IF "DESTINATION_CHANNEL_ID" \in DOMAIN env
                     THEN int(env["DESTINATION_CHANNEL_ID"]) ELSE ValueError
         IN IF id.ok /\ \A i \in 1..Len(ids) : ids[i].ok
            THEN [ok |-> TRUE,
                  api_id |-> id.value,
                  api_hash |-> env["API_HASH"],
                  source_channel_ids |-> [i \in 1..Len(ids) |-> ids[i].value],
                  destination_channel_id |-> IF dest.ok THEN dest.value ELSE 0]
            ELSE [ok |-> FALSE]
    ELSE [ok |-> FALSE]

\* the try block of main: the locals, or ok = FALSE when KeyError/ValueError is caught
LoadSecrets(env) ==
    IF {"API_ID", "API_HASH", "SOURCE_CHANNEL_IDS", "DESTINATION_CHANNEL_ID"} \subseteq DOMAIN env
    THEN LET id == int(env["API_ID"])
             parts == split(env["SOURCE_CHANNEL_IDS"], ",")
             ids == [i \in 1..Len(parts) |-> int(strip(parts[i]))]
             dest == int(env["DESTINATION_CHANNEL_ID"])
         IN IF id.ok /\ dest.ok /\ \A i \in 1..Len(ids) : ids[i].ok
            THEN [ok |-> TRUE,
                  api_id |-> id.value,
                  api_hash |-> env["API_HASH"],
                  source_channel_ids |-> [i \in 1..Len(ids) |-> ids[i].value],
                  destination_channel_id |-> dest.value]
            ELSE [ok |-> FALSE]
    ELSE [ok |-> FALSE]

\* ------------------------------------------------------------ the handler
\* characters a TLA+ string cannot hold, each one element of a text
FIRE == "<fire emoji>"
BQ == "<backquote>"
NL == "\n"
NotSpecified == <<"N","o","t"," ","S","p","e","c","i","f","i","e","d">>

\* dict.get(key, default)
get(d, key, default) == IF key \in DOMAIN d THEN d[key] ELSE default

\* the f-string with the stop loss and the take profit on each other's line
format_swapped(trade_signal) ==
    <<FIRE, " ">> \o <<"*","*","F","o","r","w","a","r","d","e","d"," ","S","i","g","n","a","l",":"," ">>
        \o trade_signal["symbol"] \o <<"*","*", " ", FIRE, NL, NL>>
    \o <<BQ, BQ, BQ, NL>>
    \o <<"A","c","t","i","o","n",":"," "," "," "," "," "," ">> \o trade_signal["action"] \o <<NL>>
    \o <<"E","n","t","r","y",":"," "," "," "," "," "," "," ">> \o get(trade_signal, "entry", NotSpecified) \o <<NL>>
    \o <<"S","t","o","p"," ","L","o","s","s",":"," "," "," ">> \o get(trade_signal, "tp", NotSpecified) \o <<NL>>
    \o <<"T","a","k","e"," ","P","r","o","f","i","t",":"," ">> \o get(trade_signal, "sl", NotSpecified) \o <<NL>>
    \o <<BQ, BQ, BQ>>

\* the f-string of the handler
format_message(trade_signal) ==
    <<FIRE, " ">> \o <<"*","*","F","o","r","w","a","r","d","e","d"," ","S","i","g","n","a","l",":"," ">>
        \o trade_signal["symbol"] \o <<"*","*", " ", FIRE, NL, NL>>
    \o <<BQ, BQ, BQ, NL>>
    \o <<"A","c","t","i","o","n",":"," "," "," "," "," "," ">> \o trade_signal["action"] \o <<NL>>
    \o <<"E","n","t","r","y",":"," "," "," "," "," "," "," ">> \o get(trade_signal, "entry", NotSpecified) \o <<NL>>
    \o <<"S","t","o","p"," ","L","o","s","s",":"," "," "," ">> \o get(trade_signal, "sl", NotSpecified) \o <<NL>>
    \o <<"T","a","k","e"," ","P","r","o","f","i","t",":"," ">> \o get(trade_signal, "tp", NotSpecified) \o <<NL>>
    \o <<BQ, BQ, BQ>>

\* events.NewMessage() without the chats filter
NewMessage_any(chat_id, chats) == TRUE

\* events.NewMessage(chats=source_channel_ids): the update reaches the handler
NewMessage(chat_id, chats) == \E i \in 1..Len(chats) : chats[i] = chat_id

\* the send issued twice for one signal
forward_twice(trade_signal, formatted_message, destination_channel_id) ==
    [status |-> "sending", trade_signal |-> trade_signal,
     formatted_message |-> formatted_message,
     requests |-> <<[to |-> destination_channel_id,
                     message |-> formatted_message,
                     parse_mode |-> "Markdown"],
                    [to |-> destination_channel_id,
                     message |-> formatted_message,
                     parse_mode |-> "Markdown"]>>]

\* lines 82-98 of the handler, run when trade_signal is truthy: the body is
\* formatted and one send_message request is issued
forward(trade_signal, formatted_message, destination_channel_id) ==
    [status |-> "sending", trade_signal |-> trade_signal,
     formatted_message |-> formatted_message,
     requests |-> <<[to |-> destination_channel_id,
                     message |-> formatted_message,
                     parse_mode |-> "Markdown"]>>]

\* a handler whose body also depends on the chat the event came from
handler_tagged(event, trade_signal, destination_channel_id) ==
    IF ~event.has_text \/ event.text = <<>>
    THEN [status |-> "no_text", trade_signal |-> None, formatted_message |-> <<>>, requests |-> <<>>]
    ELSE IF trade_signal # None /\ DOMAIN trade_signal # {}
    THEN [status |-> "sending", trade_signal |-> trade_signal,
          formatted_message |-> format_message(trade_signal),
          requests |-> <<[to |-> destination_channel_id,
                          message |-> (IF event.chat_id = 1 THEN <<>> ELSE <<"#">>)
                                          \o format_message(trade_signal),
                          parse_mode |-> "Markdown"]>>]
    ELSE [status |-> "no_signal", trade_signal |-> None, formatted_message |-> <<>>, requests |-> <<>>]

\* handler(event) up to its only await: its locals, its outcome so far and
\* the send_message requests it has issued.  trade_signal is the value of
\* parse_trade_signal(event.text).
handler(event, trade_signal, destination_channel_id) ==
    IF ~event.has_text \/ event.text = <<>>
    THEN [status |-> "no_text", trade_signal |-> None, formatted_message |-> <<>>, requests |-> <<>>]
    ELSE IF trade_signal # None /\ DOMAIN trade_signal # {}
    THEN forward(trade_signal, format_message(trade_signal), destination_channel_id)
    ELSE [status |-> "no_signal", trade_signal |-> None, formatted_message |-> <<>>, requests |-> <<>>]

\* an except clause that sends the request again
except_retry(request) == [status |-> "failed", requests |-> <<request>>, raises |-> FALSE]

\* an except clause that lets the error out of the handler and of the event loop
except_reraise(request) == [status |-> "failed", requests |-> <<>>, raises |-> TRUE]

\* except Exception: the error is printed; what the handler does next
except_Exception(request) == [status |-> "failed", requests |-> <<>>, raises |-> FALSE]

\* ---------------------------------------------------------------- inputs
SecretValues == [
    API_ID |-> {<<"7">>, <<"x","7">>},
    API_HASH |-> {<<"h">>},
    SOURCE_CHANNEL_IDS |-> {<<"1",","," ","2">>, <<"1">>, <<"1",",",",","2">>},
    DESTINATION_CHANNEL_ID |-> {<<"-","9">>, <<"9","a">>} ]

\* every way of setting some of the secrets
Environments ==
    UNION {{env \in [names -> UNION {SecretValues[n] : n \in names}] :
               \A n \in names : env[n] \in SecretValues[n]} : names \in SUBSET DOMAIN SecretValues}

ChatIds == {1, 2, 3}

EventTexts == {
    <<>>,
    <<"g","o","o","d"," ","m","o","r","n","i","n","g"," ","t","r","a","d","e","r","s">>,
    <<"B","U","Y"," ","X","A","U","U","S","D"," ","T","P",":"," ","1","9","5","0",".","5">>,
    <<"s","e","l","l"," ","E","u","r","/","u","s","d"," ","E","n","t","e","r",":"," ","1","0","0">>,
    <<"B","U","Y"," ","G","B","P","U","S","D"," ","E","n","t","r","y",":"," ","1",".","2","6","5","0"," ","S","L"," ","1",".","2","6","0","0"," ","T","P"," ","1",".","2","7","5","0">> }

\* event.chat_id and event.message.message (None when has_text is FALSE)
InboundEvents ==
    {[chat_id |-> c, has_text |-> TRUE, text |-> t] : c \in ChatIds, t \in EventTexts}
    \cup {[chat_id |-> c, has_text |-> FALSE, text |-> <<>>] : c \in ChatIds}

\* parse_trade_signal on the texts the transport delivers, computed once
Parsed == [t \in EventTexts |-> parse_trade_signal(t)]

\* --------------------------------------------- specification of the pipeline
NoConfig == [ok |-> FALSE]
NoClient == [created |-> FALSE, registered |-> FALSE, chats |-> <<>>, connected |-> FALSE]

Init ==
    /\ environ \in Environments
    /\ pc = "load"
    /\ config = NoConfig
    /\ client = NoClient
    /\ events = <<>>
    /\ outbox = <<>>
    /\ message_text = <<>>
    /\ trade = None
    /\ ppc = "unused"

\* lines 57-64: the secrets are read; main returns when one is missing or malformed
LoadConfig ==
    /\ pc = "load"
    /\ config' = LoadSecrets(environ)
    /\ pc' = IF LoadSecrets(environ).ok THEN "loaded" ELSE "exited"
    /\ UNCHANGED <<environ, client, events, outbox, pvars>>

\* line 68: TelegramClient(...)
CreateClient ==
    /\ pc = "loaded"
    /\ client' = [client EXCEPT !.created = TRUE]
    /\ pc' = "created"
    /\ UNCHANGED <<environ, config, events, outbox, pvars>>

\* line 70: @client.on(events.NewMessage(chats=source_channel_ids))
RegisterHandler ==
    /\ pc = "created"
    /\ client' = [client EXCEPT !.registered = TRUE, !.chats = config.source_channel_ids]
    /\ pc' = "starting"
    /\ UNCHANGED <<environ, config, events, outbox, pvars>>

\* line 106: await client.start() completes, the transport is connected
StartClient ==
    /\ pc = "starting"
    /\ client' = [client EXCEPT !.connected = TRUE]
    /\ pc' = "listening"
    /\ UNCHANGED <<environ, config, events, outbox, pvars>>

\* line 106: await client.start() raises, main ends with the exception
StartFails ==
    /\ pc = "starting"
    /\ pc' = "start_failed"
    /\ UNCHANGED <<environ, config, client, events, outbox, pvars>>

\* the connected transport receives an update; when it passes the chats
\* filter the handler runs up to its await of send_message
Receive(event) ==
    /\ pc = "listening"
    /\ client.connected
    /\ Len(events) < MaxEvents
    /\ IF client.registered /\ NewMessage(event.chat_id, client.chats)
       THEN \E h \in {handler(event, Parsed[event.text], config.destination_channel_id)} :
               /\ events' = Append(events, [chat_id |-> event.chat_id,
                                            has_text |-> event.has_text,
                                            text |-> event.text,
                                            status |-> h.status,
                                            trade_signal |-> h.trade_signal,
                                            formatted_message |-> h.formatted_message])
               /\ outbox' = outbox \o [k \in 1..Len(h.requests) |->
                                         [to |-> h.requests[k].to,
                                          message |-> h.requests[k].message,
                                          parse_mode |-> h.requests[k].parse_mode,
                                          event |-> Len(events) + 1]]
       ELSE /\ events' = Append(events, [chat_id |-> event.chat_id,
                                         has_text |-> event.has_text,
                                         text |-> event.text,
                                         status |-> "filtered",
                                         trade_signal |-> None,
                                         formatted_message |-> <<>>])
            /\ outbox' = outbox
    /\ UNCHANGED <<environ, pc, config, client, pvars>>

\* line 99: the awaited send_message returns
SendSucceeds(i) ==
    /\ pc = "listening"
    /\ i \in 1..Len(events)
    /\ events[i].status = "sending"
    /\ events' = [events EXCEPT ![i].status = "sent"]
    /\ UNCHANGED <<environ, pc, config, client, outbox, pvars>>

\* lines 100-101: the awaited send_message raises an Exception
SendRaises(i) ==
    /\ pc = "listening"
    /\ i \in 1..Len(events)
    /\ events[i].status = "sending"
    /\ \E e \in {except_Exception(CHOOSE r \in Range(outbox) : r.event = i)} :
          /\ events' = [events EXCEPT ![i].status = e.status]
          /\ outbox' = outbox \o [k \in 1..Len(e.requests) |->
                                    [to |-> e.requests[k].to,
                                     message |-> e.requests[k].message,
                                     parse_mode |-> e.requests[k].parse_mode,
                                     event |-> i]]
          /\ client' = IF e.raises THEN [client EXCEPT !.connected = FALSE] ELSE client
          /\ pc' = IF e.raises THEN "crashed" ELSE pc
    /\ UNCHANGED <<environ, config, pvars>>

\* line 108: run_until_disconnected returns, main ends and asyncio.run
\* cancels the handlers still awaiting their send
Disconnect ==
    /\ pc = "listening"
    /\ pc' = "disconnected"
    /\ client' = [client EXCEPT !.connected = FALSE]
    /\ events' = [i \in 1..Len(events) |->
                    IF events[i].status = "sending"
                    THEN [events[i] EXCEPT !.status = "cancelled"]
                    ELSE events[i]]
    /\ UNCHANGED <<environ, config, outbox, pvars>>

Next ==
    \/ LoadConfig
    \/ CreateClient
    \/ RegisterHandler
    \/ StartClient
    \/ StartFails
    \/ \E event \in InboundEvents : Receive(event)
    \/ \E i \in 1..MaxEvents : SendSucceeds(i)
    \/ \E i \in 1..MaxEvents : SendRaises(i)
    \/ Disconnect

Spec == Init /\ [][Next]_vars

\* --------------------------------------------- specification of the extractor
ParseInit ==
    /\ message_text \in Texts
    /\ trade = None
    /\ ppc = "call"
    /\ environ = <<>>
    /\ pc = "load"
    /\ config = NoConfig
    /\ client = NoClient
    /\ events = <<>>
    /\ outbox = <<>>

\* one call of parse_trade_signal(message_text)
Extract ==
    /\ ppc = "call"
    /\ trade' = parse_trade_signal(message_text)
    /\ ppc' = "returned"
    /\ UNCHANGED <<message_text, mvars>>

ParseNext == Extract

ParseSpec == ParseInit /\ [][ParseNext]_vars

\* ------------------------------------------------ vocabulary of the claims
\* the number of send_message requests issued for the i-th event
SendsFor(i) == Cardinality({k \in 1..Len(outbox) : outbox[k].event = i})

\* the i-th event was handed to the handler
Dispatched(i) == events[i].status # "filtered"

\* the text of the i-th event is present, not empty, and extraction gives a record
YieldsSignal(i) ==
    events[i].has_text /\ events[i].text # <<>> /\ Parsed[events[i].text] # None

\* the handler of an event in one of these states has called send_message
ReachedSend == {"sending", "sent", "failed", "cancelled"}

OptionalKeys == {"entry", "tp", "sl"}

RECURSIVE JoinLines(_)
JoinLines(ls) ==
    IF Len(ls) = 1 THEN ls[1] ELSE ls[1] \o <<NL>> \o JoinLines(Tail(ls))

\* the outbound body the interface section gives for a record
ExpectedBody(rec) ==
    JoinLines(<<
        <<FIRE," ","*","*","F","o","r","w","a","r","d","e","d"," ","S","i","g","n","a","l",":"," ">>
            \o rec.symbol \o <<"*","*"," ",FIRE>>,
        <<>>,
        <<BQ,BQ,BQ>>,
        <<"A","c","t","i","o","n",":"," "," "," "," "," "," ">> \o rec.action,
        <<"E","n","t","r","y",":"," "," "," "," "," "," "," ">>
            \o (IF "entry" \in DOMAIN rec THEN rec.entry ELSE NotSpecified),
        <<"S","t","o","p"," ","L","o","s","s",":"," "," "," ">>
            \o (IF "sl" \in DOMAIN rec THEN rec.sl ELSE NotSpecified),
        <<"T","a","k","e"," ","P","r","o","f","i","t",":"," ">>
            \o (IF "tp" \in DOMAIN rec THEN rec.tp ELSE NotSpecified),
        <<BQ,BQ,BQ>> >>)

ExpectedBodies == [t \in {u \in EventTexts : Parsed[u] # None} |-> ExpectedBody(Parsed[t])]

\* "BUY GBPUSD Entry: 1.2650 SL 1.2600 TP 1.2750" and the body expected for it
ExampleText == <<"B","U","Y"," ","G","B","P","U","S","D"," ","E","n","t","r","y",":"," ","1",".","2","6","5","0"," ","S","L"," ","1",".","2","6","0","0"," ","T","P"," ","1",".","2","7","5","0">>
ExampleBody == <<
        FIRE," ","*","*","F","o","r","w","a","r","d","e","d"," ","S","i","g","n","a","l",":"," ","G","B","P","U","S","D","*","*"," ",FIRE, NL,
        NL,
        BQ,BQ,BQ, NL,
        "A","c","t","i","o","n",":"," "," "," "," "," "," ","B","U","Y", NL,
        "E","n","t","r","y",":"," "," "," "," "," "," "," ","1",".","2","6","5","0", NL,
        "S","t","o","p"," ","L","o","s","s",":"," "," "," ","1",".","2","6","0","0", NL,
        "T","a","k","e"," ","P","r","o","f","i","t",":"," ","1",".","2","7","5","0", NL,
        BQ,BQ,BQ >>

\* ------------------------------------------------------------------- C1
\* C1: every event handed to the handler whose text yields a TradeSignal has
\* exactly one send request, every other event has none; the number of send
\* requests is the number of events whose handler reached the send, and is
\* at most the number of signal-yielding events received.
C1_OneSendPerSignal ==
    /\ \A i \in 1..Len(events) :
          SendsFor(i) = IF Dispatched(i) /\ YieldsSignal(i) THEN 1 ELSE 0
    /\ Len(outbox) = Cardinality({i \in 1..Len(events) : events[i].status \in ReachedSend})
    /\ Len(outbox) <= Cardinality({i \in 1..Len(events) : YieldsSignal(i)})

C1_Witness ==
    \E i, j \in 1..Len(events) :
        /\ SendsFor(i) = 1 /\ events[i].status = "sent"
        /\ events[j].status = "no_signal" /\ SendsFor(j) = 0

\* ------------------------------------------------------------------- C2
\* C2: the step in which the send of an event fails ends that handler as
\* failed, issues no further send request, leaves main listening and the
\* client connected, and touches no other event; a later event is still
\* sent (the witness).
C2_SendFailureContained ==
    [][\A i \in 1..Len(events) :
          (events[i].status = "sending" /\ events'[i].status = "failed")
          => /\ pc' = "listening"
             /\ client' = client
             /\ outbox' = outbox
             /\ Len(events') = Len(events)
             /\ \A j \in 1..Len(events) : j # i => events'[j] = events[j]]_vars

C2_Witness ==
    /\ Len(events) = 2
    /\ events[1].status = "failed"
    /\ events[2].status = "sent"
    /\ SendsFor(1) = 1
    /\ pc = "listening"

\* ------------------------------------------------------------------- C4
\* C4: an event whose chat id is not among the configured source ids has no
\* send request, whatever its text.
C4_NoSendForUnconfiguredSource ==
    \A i \in 1..Len(events) :
        events[i].chat_id \notin Range(config.source_channel_ids) => SendsFor(i) = 0

C4_Witness ==
    \E i \in 1..Len(events) :
        /\ events[i].chat_id \notin Range(config.source_channel_ids)
        /\ YieldsSignal(i)
        /\ events[i].status = "filtered"

\* ------------------------------------------------------------------- C5
IntSettings == {"API_ID", "DESTINATION_CHANNEL_ID"}
RequiredSettings == {"API_ID", "API_HASH", "SOURCE_CHANNEL_IDS", "DESTINATION_CHANNEL_ID"}

\* s is an integer numeral: digits, after an optional sign, inside optional blanks
IntegerText(s) ==
    \E a, b \in 1..Len(s) :
        /\ a <= b
        /\ \A i \in 1..Len(s) : (i < a \/ i > b) => s[i] \in Whitespace
        /\ s[b] \in Digits
        /\ \A i \in a..b : s[i] \in Digits \/ (i = a /\ s[i] \in {"+", "-"})

\* one of the four settings is missing, or one that must be an integer (each
\* comma-separated part of the source list) is not an integer numeral
MissingOrMalformed ==
    \/ \E n \in RequiredSettings : n \notin DOMAIN environ
    \/ \E n \in IntSettings : n \in DOMAIN environ /\ ~IntegerText(environ[n])
    \/ /\ "SOURCE_CHANNEL_IDS" \in DOMAIN environ
       /\ \E part \in Range(split(environ["SOURCE_CHANNEL_IDS"], ",")) : ~IntegerText(part)

\* C5: with a missing or malformed setting main never gets past reading the
\* secrets: no client, no handler, no connection, no event, no send.
C5_BadConfigNeverStarts ==
    MissingOrMalformed =>
        /\ pc \in {"load", "exited"}
        /\ client = NoClient
        /\ ~config.ok
        /\ events = <<>>
        /\ outbox = <<>>

C5_Witness == MissingOrMalformed /\ pc = "exited" /\ DOMAIN environ = RequiredSettings

\* ------------------------------------------------------------------- C6
\* C6: every send request goes to the configured destination, and its body is
\* the template filled with the symbol, the action and, for entry, stop loss
\* and take profit, the captured value or "Not Specified"; the example text
\* gives the example body.
C6_BodyCarriesRecord ==
    \A k \in 1..Len(outbox) :
        LET text == events[outbox[k].event].text
        IN /\ outbox[k].to = config.destination_channel_id
           /\ environ["DESTINATION_CHANNEL_ID"] = <<"-","9">> => outbox[k].to = 0 - 9
           /\ outbox[k].message = ExpectedBodies[text]
           /\ text = ExampleText => outbox[k].message = ExampleBody

C6_Witness ==
    \E k, l \in 1..Len(outbox) :
        /\ events[outbox[k].event].text = ExampleText
        /\ "entry" \notin DOMAIN Parsed[events[outbox[l].event].text]

\* ------------------------------------------------------------------- C8
PipelineState ==
    IF pc = "listening" THEN "Listening"
    ELSE IF pc \in {"disconnected", "crashed"} THEN "Terminated"
    ELSE "Idle"

C3_RecordHasActionAndSymbol ==
    ppc = "returned" =>
        /\ (trade = None) = ~SearchAction(message_text).found
        /\ trade # None =>
              /\ {"action", "symbol"} \subseteq DOMAIN trade
              /\ DOMAIN trade \subseteq {"action", "symbol"} \cup OptionalKeys
              /\ ("entry" \in DOMAIN trade) = SearchField(message_text, EntryLabels).found
              /\ ("tp" \in DOMAIN trade) = SearchField(message_text, TpLabels).found
              /\ ("sl" \in DOMAIN trade) = SearchField(message_text, SlLabels).found

C3_Witness ==
    /\ ppc = "returned"
    /\ trade # None
    /\ "tp" \in DOMAIN trade
    /\ "entry" \notin DOMAIN trade
    /\ "sl" \notin DOMAIN trade

\* ------------------------------------------------------------------- C7
BuyEurusd == <<"B","U","Y"," ","E","U","R","U","S","D">>
SellEurUsd == <<"S","E","L","L"," ","E","U","R","/","U","S","D">>

\* the places where the phrase occurs in s, ignoring case
Occurrences(s, phrase) == {p \in 1..Len(s) : LitAt(s, p, phrase)}

\* no BUY or SELL begins before p
FirstKeyword(s, p) == \A q \in 1..(p - 1) : ~LitAt(s, q, BUY) /\ ~LitAt(s, q, SELL)

\* the character at p is a letter
LetterAt(s, p) == p <= Len(s) /\ s[p] \in Letters

\* C7 as stated: any text containing "BUY EURUSD" / "SELL EUR/USD" gives
\* action BUY / SELL and symbol EURUSD.
C7_AnywhereInText ==
    ppc = "returned" =>
        /\ Occurrences(message_text, BuyEurusd) # {}
              => (trade # None /\ trade.action = BUY /\ trade.symbol = EURUSD)
        /\ Occurrences(message_text, SellEurUsd) # {}
              => (trade # None /\ trade.action = SELL /\ trade.symbol = EURUSD)

\* C7 amended: a text containing either phrase always gives a record; it has
\* action BUY and symbol EURUSD when "BUY EURUSD" starts at the first BUY or
\* SELL of the text and is not followed by "/" and three letters, and action
\* SELL and symbol EURUSD when "SELL EUR/USD" starts at the first BUY or SELL
\* of the text and is not followed by a letter.
C7_LeftmostPair ==
    ppc = "returned" =>
        /\ (Occurrences(message_text, BuyEurusd) \cup Occurrences(message_text, SellEurUsd)) # {}
              => trade # None
        /\ \A p \in Occurrences(message_text, BuyEurusd) :
              (/\ FirstKeyword(message_text, p)
               /\ ~(/\ p + 10 <= Len(message_text)
                    /\ message_text[p + 10] = "/"
                    /\ \A d \in 1..3 : LetterAt(message_text, p + 10 + d)))
              => (trade.action = BUY /\ trade.symbol = EURUSD)
        /\ \A p \in Occurrences(message_text, SellEurUsd) :
              (FirstKeyword(message_text, p) /\ ~LetterAt(message_text, p + 12))
              => (trade.action = SELL /\ trade.symbol = EURUSD)

C7_Witness ==
    /\ ppc = "returned"
    /\ \E p \in Occurrences(message_text, SellEurUsd) :
          /\ p > 1
          /\ FirstKeyword(message_text, p)
          /\ p + 12 <= Len(message_text)
          /\ ~LetterAt(message_text, p + 12)
    /\ trade.symbol = EURUSD

\* ------------------------------------------------------------------ C10
\* digits with at most one decimal point and at least one digit
DecimalNumber(v) ==
    /\ v # <<>>
    /\ \A i \in 1..Len(v) : v[i] \in Digits \/ v[i] = "."
    /\ \E i \in 1..Len(v) : v[i] \in Digits
    /\ Cardinality({i \in 1..Len(v) : v[i] = "."}) <= 1

\* C10: every entry, tp and sl of a record is a decimal number.
C10_ValuesAreDecimalNumbers ==
    (ppc = "returned" /\ trade # None) =>
        \A k \in DOMAIN trade \cap OptionalKeys : DecimalNumber(trade[k])

====
